---- MODULE Spec2Model ----
(***************************************************************************)
(* Model of the spaced-repetition scheduler and the Review Mode page of    *)
(* src/app.py (Streamlit flashcards application).                          *)
(*                                                                         *)
(* Python floats are IEEE-754 binary64.  The ease factor is a float, and   *)
(* the products interval * 1.2, interval * ease and interval * ease * 1.3  *)
(* are float products truncated by int().  Every float that srs_next can   *)
(* produce lies next to a multiple of 1/20 (ease) or of 1/400 (the Easy    *)
(* product), so a float is represented EXACTLY by a pair [n, d]:           *)
(*      value = n / DEN + d / (DEN * 2^56)        DEN = 20 or 400          *)
(* and an operation is the exact rational result rounded to the nearest    *)
(* binary64 (ties to even), computed from residues of small integers.      *)
(***************************************************************************)
EXTENDS Integers, Sequences, FiniteSets, TLC

----------------------------------------------------------------------------
(* Bounds of the model *)

MaxEvents == 2
MaxSchedInterval == 4
MaxSchedSteps == 2

MaxStudyStarts == 3
MaxRatings == 8
MaxRatedInterval == 100

----------------------------------------------------------------------------
(* binary64 arithmetic *)

FracBits == 56

RECURSIVE Pow2(_)
Pow2(m) == IF m = 0 THEN 1 ELSE 2 * Pow2(m - 1)

RECURSIVE Pow2Mod(_, _)
Pow2Mod(m, O) == IF m = 0 THEN 1 % O ELSE (2 * Pow2Mod(m - 1, O)) % O

\* DEN = OddPart(DEN) * 2^TwoPart(DEN)
OddPart(DEN) == IF DEN = 20 THEN 5 ELSE 25
TwoPart(DEN) == IF DEN = 20 THEN 2 ELSE 4

Sign(e) == IF e > 0 THEN 1 ELSE IF e < 0 THEN -1 ELSE 0

RECURSIVE Level(_, _, _)
Level(n, DEN, s) == IF 16 * n <= DEN * Pow2(s + 1) THEN s ELSE Level(n, DEN, s + 1)

\* s = k + 4 where 2^k <= value < 2^(k+1); value = (n * 2^56 + d + eps) / (DEN * 2^56)
Binade(n, d, eps, DEN) ==
    LET s == Level(n, DEN, 0)
        top == 16 * n = DEN * Pow2(s + 1)
        below == d < 0 \/ (d = 0 /\ eps < 0)
    IN  IF top /\ ~below THEN s + 1 ELSE s

\* (n * 2^56) mod (O * 2^j)
ScaledMod(n, j, O) == Pow2(j) * (((n % O) * Pow2Mod(FracBits - j, O)) % O)

\* round-to-nearest, ties-to-even, of (n * 2^56 + d + eps) / (DEN * 2^56) to 53 significant bits
FloatRound(n, d, eps, DEN) ==
    LET O == OddPart(DEN)
        j == TwoPart(DEN) + Binade(n, d, eps, DEN)
        g == O * Pow2(j)
        rho == (ScaledMod(n, j, O) + d) % g
        rho2 == (ScaledMod(n, j + 1, O) + d) % (2 * g)
        up == IF 2 * rho < g \/ (2 * rho = g /\ eps < 0) THEN FALSE
              ELSE IF 2 * rho > g \/ (2 * rho = g /\ eps > 0) THEN TRUE
              ELSE rho2 - rho = g
    IN  IF rho = 0 THEN [n |-> n, d |-> d]
        ELSE IF up THEN [n |-> n, d |-> d - rho + g]
        ELSE [n |-> n, d |-> d - rho]

\* the float denoted by the decimal literal n/20 (1.3 is FloatLit(26))
FloatLit(n) == FloatRound(n, 0, 0, 20)

FloatOfInt(i) == [n |-> 20 * i, d |-> 0]

FloatAdd(x, y) == FloatRound(x.n + y.n, x.d + y.d, 0, 20)

FloatSub(x, y) == FloatRound(x.n - y.n, x.d - y.d, 0, 20)

\* int * float : the int converts exactly, the product is rounded
FloatMulInt(i, x) == FloatRound(i * x.n, i * x.d, 0, 20)

\* float * float, result on the 1/400 scale
FloatMul(x, y) ==
    FloatRound(x.n * y.n, x.n * y.d + y.n * x.d, Sign(x.d * y.d), 400)

FloatLess(x, y) == x.n < y.n \/ (x.n = y.n /\ x.d < y.d)

\* Python max(a, b): b only when b > a
FloatMax(a, b) == IF FloatLess(a, b) THEN b ELSE a

\* int(x) for x >= 0 on the scale DEN
FloatTrunc(x, DEN) ==
    (x.n \div DEN) - (IF x.n % DEN = 0 /\ x.d < 0 THEN 1 ELSE 0)

IntMax(a, b) == IF b > a THEN b ELSE a

----------------------------------------------------------------------------
(* datetime.date, isoformat() and Python string comparison *)

Epoch == [y |-> 2024, m |-> 12, d |-> 30]

IsLeap(y) == (y % 4 = 0 /\ y % 100 # 0) \/ y % 400 = 0

DaysInMonth(y, m) ==
    IF m = 2 THEN (IF IsLeap(y) THEN 29 ELSE 28)
    ELSE IF m \in {4, 6, 9, 11} THEN 30 ELSE 31

FirstOfNextMonth(dt) ==
    IF dt.m < 12 THEN [y |-> dt.y, m |-> dt.m + 1, d |-> 1]
    ELSE [y |-> dt.y + 1, m |-> 1, d |-> 1]

\* date + datetime.timedelta(days=k), k >= 0
RECURSIVE AddDays(_, _)
AddDays(dt, k) ==
    IF dt.d + k <= DaysInMonth(dt.y, dt.m) THEN [dt EXCEPT !.d = dt.d + k]
    ELSE AddDays(FirstOfNextMonth(dt), k - (DaysInMonth(dt.y, dt.m) - dt.d + 1))

\* a string is the sequence of its character codes: "0" is 48, "-" is 45
Digit(c) == 48 + c

\* date.isoformat(): YYYY-MM-DD
isoformat(dt) ==
    << Digit(dt.y \div 1000), Digit((dt.y \div 100) % 10), Digit((dt.y \div 10) % 10), Digit(dt.y % 10),
       45, Digit(dt.m \div 10), Digit(dt.m % 10),
       45, Digit(dt.d \div 10), Digit(dt.d % 10) >>

\* Python str < str : lexicographic on code points, a proper prefix is smaller
RECURSIVE StrLess(_, _)
StrLess(a, b) ==
    IF b = <<>> THEN FALSE
    ELSE IF a = <<>> THEN TRUE
    ELSE IF Head(a) # Head(b) THEN Head(a) < Head(b)
    ELSE StrLess(Tail(a), Tail(b))

\* Python str <= str
StrLeq(a, b) == a = b \/ StrLess(a, b)

----------------------------------------------------------------------------
(* State *)

VARIABLES
    clock,             \* the calendar: days elapsed since Epoch
    user_srs,          \* table user_srs, rows in insertion order
    srs_list,          \* ss.srs_list : sequence of <<word row, srs row>>
    srs_index,         \* ss.srs_index
    srs_revealed,      \* ss.srs_revealed
    srs_prompt_type,   \* ss.srs_prompt_type
    srs_mixed_mode,    \* ss.srs_mixed_mode
    srs_reverse_mode,  \* ss.srs_reverse_mode
    last_collect,      \* the call of collect_due_cards made by the latest script run, None if it
                       \* made none: the locals today, review_source, review_ahead, shuffle, due_cards
    events,            \* ratings, restarts, mode changes and midnights so far (bounds the model)
    sess,              \* history: the queue and the modes the active session started with and
                       \* the ratings submitted in it so far, None while ss.srs_list is empty
    last_rate,         \* history: the rating the latest step submitted, None if it submitted none
    last_restart,      \* history: the position, revealed flag, queue length and table the latest
                       \* step restarted from, None if it was no restart
    fn_entry,          \* scheduler harness: the record given to srs_next
    fn_rating,         \* scheduler harness: the rating given to srs_next
    fn_result,         \* scheduler harness: what srs_next returned
    fn_today,          \* scheduler harness: datetime.date.today() at the call
    fn_steps,          \* scheduler harness: calls made so far (bounds the model)
    pr_card,           \* prompt harness: the card given to choose_srs_prompt_type
    pr_reverse,        \* prompt harness: ss.srs_reverse_mode at the call
    pr_mixed,          \* prompt harness: ss.srs_mixed_mode at the call
    pr_result,         \* prompt harness: what the call returned, "" before it
    pr_possible,       \* prompt harness: every value that call could have returned, {} before it
    study_history,     \* table study_history, rows in insertion order
    study_list,        \* ss.study_list
    current_user_id,   \* ss.current_user_id
    study_starts,      \* history: presses of Start Study so far, as <<user, date>> pairs
    words_deleted,     \* ids of the rows deleted from table words
    rated_on           \* history: the ratings submitted so far, as <<record id, date>> pairs

vars == << clock, user_srs, srs_list, srs_index, srs_revealed, srs_prompt_type,
           srs_mixed_mode, srs_reverse_mode, last_collect, events, sess, last_rate,
           last_restart, fn_entry, fn_rating, fn_result, fn_today, fn_steps,
           pr_card, pr_reverse, pr_mixed, pr_result, pr_possible,
           study_history, study_list, current_user_id, study_starts, words_deleted,
           rated_on >>

sessionVars == << user_srs, srs_list, srs_index, srs_revealed, srs_prompt_type,
                  srs_mixed_mode, srs_reverse_mode, last_collect, events, sess, last_rate,
                  last_restart, words_deleted, rated_on >>

fnVars == << fn_entry, fn_rating, fn_result, fn_today, fn_steps >>

prVars == << pr_card, pr_reverse, pr_mixed, pr_result, pr_possible >>

stVars == << study_history, study_list, current_user_id, study_starts >>

None == [none |-> TRUE]

\* datetime.date.today()
Today == AddDays(Epoch, clock)

----------------------------------------------------------------------------
(* Scheduler *)

\* the float literals of srs_next and db_create_srs
Lit_0_1 == FloatLit(2)
Lit_0_15 == FloatLit(3)
Lit_0_2 == FloatLit(4)
Lit_1_2 == FloatLit(24)
Lit_1_3 == FloatLit(26)
DefaultEase == FloatLit(50)

\* srs_again without the floor of 1.3 on ease
srs_again_unclamped(interval, ease, reps) ==
    [interval |-> 1, ease |-> FloatSub(ease, Lit_0_2), reps |-> 0]

\* srs_again that resets the interval to 0
srs_again_zero(interval, ease, reps) ==
    [interval |-> 0,
     ease |-> FloatMax(Lit_1_3, FloatSub(ease, Lit_0_2)),
     reps |-> 0]

\* srs_again that keeps counting repetitions
srs_again_counting(interval, ease, reps) ==
    [interval |-> 1,
     ease |-> FloatMax(Lit_1_3, FloatSub(ease, Lit_0_2)),
     reps |-> reps + 1]

\* rating == 0 (Again)
srs_again(interval, ease, reps) ==
    [interval |-> 1,
     ease |-> FloatMax(Lit_1_3, FloatSub(ease, Lit_0_2)),
     reps |-> 0]

\* srs_hard with the ease penalty of Again
srs_hard_penalty(interval, ease, reps) ==
    [interval |-> IntMax(1, FloatTrunc(FloatMulInt(interval, Lit_1_2), 20)),
     ease |-> FloatMax(Lit_1_3, FloatSub(ease, Lit_0_2)),
     reps |-> reps + 1]

\* srs_hard that multiplies the interval by 0.8
srs_hard_shrinking(interval, ease, reps) ==
    [interval |-> IntMax(1, FloatTrunc(FloatMulInt(interval, FloatLit(16)), 20)),
     ease |-> FloatMax(Lit_1_3, FloatSub(ease, Lit_0_15)),
     reps |-> reps + 1]

\* rating == 1 (Hard)
srs_hard(interval, ease, reps) ==
    [interval |-> IntMax(1, FloatTrunc(FloatMulInt(interval, Lit_1_2), 20)),
     ease |-> FloatMax(Lit_1_3, FloatSub(ease, Lit_0_15)),
     reps |-> reps + 1]

\* srs_good with round() in place of int(): floor(2x) - floor(x) rounds x half up
srs_good_rounded(interval, ease, reps) ==
    [interval |-> FloatTrunc(FloatMulInt(2 * interval, ease), 20)
                  - FloatTrunc(FloatMulInt(interval, ease), 20),
     ease |-> ease,
     reps |-> reps + 1]

\* srs_good that always adds at least one day
srs_good_growing(interval, ease, reps) ==
    [interval |-> IntMax(interval + 1, FloatTrunc(FloatMulInt(interval, ease), 20)),
     ease |-> ease,
     reps |-> reps + 1]

\* rating == 2 (Good)
srs_good(interval, ease, reps) ==
    [interval |-> FloatTrunc(FloatMulInt(interval, ease), 20),
     ease |-> ease,
     reps |-> reps + 1]

\* srs_easy that raises ease before it computes the interval
srs_easy_late(interval, ease, reps) ==
    [interval |-> FloatTrunc(FloatMul(FloatMulInt(interval, FloatAdd(ease, Lit_0_1)), Lit_1_3), 400),
     ease |-> FloatAdd(ease, Lit_0_1),
     reps |-> reps + 1]

\* rating == 3 (Easy)
srs_easy(interval, ease, reps) ==
    [interval |-> FloatTrunc(FloatMul(FloatMulInt(interval, ease), Lit_1_3), 400),
     ease |-> FloatAdd(ease, Lit_0_1),
     reps |-> reps + 1]

\* no branch of the if/elif chain is taken
srs_other(interval, ease, reps) ==
    [interval |-> interval, ease |-> ease, reps |-> reps]

\* next_due that counts today as the first day of the interval
next_due_short(interval) == isoformat(AddDays(Today, interval - 1))

next_due(interval) == isoformat(AddDays(Today, interval))

srs_next(srs_entry, rating) ==
    LET interval == srs_entry.srs_interval
        ease == srs_entry.srs_ease
        reps == srs_entry.srs_reps
        upd == IF rating = 0 THEN srs_again(interval, ease, reps)
               ELSE IF rating = 1 THEN srs_hard(interval, ease, reps)
               ELSE IF rating = 2 THEN srs_good(interval, ease, reps)
               ELSE IF rating = 3 THEN srs_easy(interval, ease, reps)
               ELSE srs_other(interval, ease, reps)
    IN  [srs_interval |-> upd.interval,
         srs_ease |-> upd.ease,
         srs_reps |-> upd.reps,
         srs_due |-> next_due(upd.interval)]

----------------------------------------------------------------------------
(* Card store: tables words and group_members *)

\* the rows table words starts with, in insertion order; word is a string of
\* character codes
Words ==
    << [id |-> 1, lang |-> "english", word |-> <<99, 97, 116>>, meaning |-> "animal", comment |-> "pet"],
       [id |-> 2, lang |-> "english", word |-> <<97, 110, 116>>, meaning |-> "", comment |-> ""] >>

\* word ids of the one study group, as db_get_group_members returns them
GroupMembers == << 1 >>

ReviewSources == {"All English Words", "All Chinese Words", "Study Group"}

CurrentUser == "Guest"

Range(f) == {f[i] : i \in DOMAIN f}

\* ORDER BY word
RECURSIVE SortByWord(_)
SortByWord(S) ==
    IF S = {} THEN <<>>
    ELSE LET first == CHOOSE x \in S : \A y \in S \ {x} : StrLess(x.word, y.word)
         IN  <<first>> \o SortByWord(S \ {first})

\* the rows of table words
WordRows == {w \in Range(Words) : w.id \notin words_deleted}

db_get_words(lang) == SortByWord({w \in WordRows : w.lang = lang})

db_get_all_words == db_get_words("english") \o db_get_words("chinese")

db_get_group_members == GroupMembers

----------------------------------------------------------------------------
(* SRS record store: table user_srs *)

\* db_get_srs that looks at the first row of the table only
db_get_srs_first_row(table, user_id, word_id) ==
    IF table # <<>> /\ table[1].user_id = user_id /\ table[1].word_id = word_id
    THEN table[1] ELSE None

db_get_srs(table, user_id, word_id) ==
    LET hits == {i \in DOMAIN table : table[i].user_id = user_id /\ table[i].word_id = word_id}
    IN  IF hits # {} THEN table[CHOOSE i \in hits : \A k \in hits : i <= k] ELSE None

\* the row db_create_srs inserts and returns
db_create_srs(table, user_id, word_id) ==
    [id |-> Len(table) + 1,
     user_id |-> user_id,
     word_id |-> word_id,
     srs_interval |-> 1,
     srs_due |-> isoformat(Today),
     srs_ease |-> DefaultEase,
     srs_reps |-> 0]

\* db_update_srs that leaves the due date out of the update
db_update_srs_no_due(table, srs_id, updates) ==
    [i \in DOMAIN table |->
        IF table[i].id = srs_id
        THEN [table[i] EXCEPT !.srs_interval = updates.srs_interval,
                              !.srs_ease = updates.srs_ease,
                              !.srs_reps = updates.srs_reps]
        ELSE table[i]]

\* db_update_srs without the filter on the id: every row takes the update
db_update_srs_unfiltered(table, srs_id, updates) ==
    [i \in DOMAIN table |->
        [table[i] EXCEPT !.srs_interval = updates.srs_interval,
                         !.srs_ease = updates.srs_ease,
                         !.srs_reps = updates.srs_reps,
                         !.srs_due = updates.srs_due]]

\* the table after db_update_srs
db_update_srs(table, srs_id, updates) ==
    [i \in DOMAIN table |->
        IF table[i].id = srs_id
        THEN [table[i] EXCEPT !.srs_interval = updates.srs_interval,
                              !.srs_ease = updates.srs_ease,
                              !.srs_reps = updates.srs_reps,
                              !.srs_due = updates.srs_due]
        ELSE table[i]]

\* what db_update_srs tells its caller: it returns nothing and raises nothing,
\* whether or not the table has a row with the id
db_update_srs_outcome(table, srs_id) == "returned"

\* the set of deleted word ids after db_delete_word
db_delete_word(deleted, word_id) == deleted \cup {word_id}

\* what is left of a record deleted with its card: the place in the table is
\* kept, empty, so that no later row is given the id again
DeletedRow ==
    [id |-> 0, user_id |-> "", word_id |-> 0, srs_interval |-> 0, srs_due |-> "",
     srs_ease |-> FloatOfInt(0), srs_reps |-> 0]

\* the deletion of a card deletes its SRS records
cascade_delete_srs(table, word_id) ==
    [i \in DOMAIN table |-> IF table[i].word_id = word_id THEN DeletedRow ELSE table[i]]

----------------------------------------------------------------------------
(* Review Mode page *)

\* choose_prompt_type that offers the comment of every card
choose_prompt_type_any_comment(card) ==
    {"word"} \cup (IF card.meaning # "" THEN {"meaning"} ELSE {}) \cup {"comment"}

\* random.choice(options): the set of possible results
choose_prompt_type(card) ==
    {"word"} \cup (IF card.meaning # "" THEN {"meaning"} ELSE {})
             \cup (IF card.comment # "" THEN {"comment"} ELSE {})

\* choose_srs_prompt_type that tests mixed mode first
choose_srs_prompt_type_mixed_first(word_entry, reverse_mode, mixed_mode) ==
    IF mixed_mode THEN choose_prompt_type(word_entry)
    ELSE IF reverse_mode
    THEN (IF word_entry.comment # "" THEN {"comment"}
          ELSE IF word_entry.meaning # "" THEN {"meaning"}
          ELSE {"word"})
    ELSE {"word"}

\* the set of possible results
choose_srs_prompt_type(word_entry, reverse_mode, mixed_mode) ==
    IF reverse_mode
    THEN (IF word_entry.comment # "" THEN {"comment"}
          ELSE IF word_entry.meaning # "" THEN {"meaning"}
          ELSE {"word"})
    ELSE IF mixed_mode THEN choose_prompt_type(word_entry)
    ELSE {"word"}

EnglishWords == db_get_words("english")

ChineseWords == db_get_words("chinese")

\* the words of the study group: db_get_all_words filtered by membership
GroupWords ==
    LET member_ids == Range(db_get_group_members)
        InGroup(w) == w.id \in member_ids
    IN  SelectSeq(db_get_all_words, InGroup)

\* step 1 of collect_due_cards
source_words(source) ==
    IF source = "All English Words" THEN EnglishWords
    ELSE IF source = "All Chinese Words" THEN ChineseWords
    ELSE GroupWords

\* is_due that leaves out the cards due today
is_due_strict(srs, ahead, tdy) == ahead \/ StrLess(srs.srs_due, tdy)

\* does the loop of collect_due_cards keep this record
is_due(srs, ahead, tdy) == ahead \/ StrLeq(srs.srs_due, tdy)

\* steps 2 and 3 of collect_due_cards: the loop over words
RECURSIVE collect_loop(_, _, _, _, _)
collect_loop(words, table, acc, ahead, tdy) ==
    IF words = <<>> THEN [table |-> table, due_cards |-> acc]
    ELSE LET w == Head(words)
             found == db_get_srs(table, CurrentUser, w.id)
             created == db_create_srs(table, CurrentUser, w.id)
             srs == IF found = None THEN created ELSE found
             table2 == IF found = None THEN Append(table, created) ELSE table
         IN  collect_loop(Tail(words), table2,
                          IF is_due(srs, ahead, tdy) THEN Append(acc, <<w, srs>>) ELSE acc,
                          ahead, tdy)

collect_due_cards(table, source, ahead, tdy) ==
    collect_loop(source_words(source), table, <<>>, ahead, tdy)

\* random.shuffle(x): every permutation of x is a possible result
shuffles(x) ==
    LET n == Len(x)
        bij == {f \in [1..n -> 1..n] : \A i, k \in 1..n : f[i] = f[k] => i = k}
    IN  {[i \in 1..n |-> x[f[i]]] : f \in bij}

\* shuffled that ignores the checkbox
shuffled_always(x, shuf) == shuffles(x)

shuffled(x, shuf) == IF shuf THEN shuffles(x) ELSE {x}

\* a script run that starts a session without choosing a prompt for its first card
ScriptRun_keep_prompt(list, idx, revl, prompt, table, rev, mix, hist) ==
    IF list = <<>>
    THEN \E source \in ReviewSources, shuf \in BOOLEAN, ahead \in BOOLEAN :
         \E res \in {collect_due_cards(table, source, ahead, isoformat(Today))} :
             /\ user_srs' = res.table
             /\ last_collect' = [today |-> isoformat(Today), review_source |-> source,
                                 review_ahead |-> ahead, shuffle |-> shuf,
                                 due_cards |-> res.due_cards]
             /\ IF res.due_cards = <<>>
                THEN /\ srs_list' = list
                     /\ srs_index' = idx
                     /\ srs_revealed' = revl
                     /\ srs_prompt_type' = prompt
                     /\ sess' = None
                ELSE \E q \in shuffled(res.due_cards, shuf) :
                         /\ srs_list' = q
                         /\ srs_index' = 0
                         /\ srs_revealed' = FALSE
                         /\ srs_prompt_type' = prompt
                         /\ sess' = [queue |-> q, rated |-> 0, mixed |-> mix, reverse |-> rev]
    ELSE /\ user_srs' = table
         /\ sess' = hist
         /\ last_collect' = None
         /\ srs_list' = list
         /\ srs_index' = idx
         /\ srs_revealed' = revl
         /\ srs_prompt_type' = prompt

\* One run of the Review Mode script with no button pressed, entered with the
\* session state (list, idx, revl, prompt) and the table.  The widgets
\* review_source, shuffle and review_ahead are inputs of the run.  hist is
\* the history of the session the run is entered with.
ScriptRun(list, idx, revl, prompt, table, rev, mix, hist) ==
    IF list = <<>>
    THEN \E source \in ReviewSources, shuf \in BOOLEAN, ahead \in BOOLEAN :
         \E res \in {collect_due_cards(table, source, ahead, isoformat(Today))} :
             /\ user_srs' = res.table
             /\ last_collect' = [today |-> isoformat(Today), review_source |-> source,
                                 review_ahead |-> ahead, shuffle |-> shuf,
                                 due_cards |-> res.due_cards]
             /\ IF res.due_cards = <<>>
                THEN /\ srs_list' = list
                     /\ srs_index' = idx
                     /\ srs_revealed' = revl
                     /\ srs_prompt_type' = prompt
                     /\ sess' = None
                ELSE \E q \in shuffled(res.due_cards, shuf) :
                     \E pt \in choose_srs_prompt_type(q[1][1], rev, mix) :
                         /\ srs_list' = q
                         /\ srs_index' = 0
                         /\ srs_revealed' = FALSE
                         /\ srs_prompt_type' = pt
                         /\ sess' = [queue |-> q, rated |-> 0, mixed |-> mix, reverse |-> rev]
    ELSE /\ user_srs' = table
         /\ sess' = hist
         /\ last_collect' = None
         /\ srs_list' = list
         /\ srs_index' = idx
         /\ srs_revealed' = revl
         /\ srs_prompt_type' = prompt

\* a run with no button pressed and the mode checkboxes untouched: the page
\* is opened or refreshed, or the source, shuffle or review-ahead widget changed
OpenPage ==
    /\ ScriptRun(srs_list, srs_index, srs_revealed, srs_prompt_type, user_srs,
                 srs_reverse_mode, srs_mixed_mode, sess)
    /\ last_rate' = None
    /\ last_restart' = None
    /\ UNCHANGED << clock, srs_mixed_mode, srs_reverse_mode, events >>
    /\ UNCHANGED << fnVars, prVars, stVars, words_deleted, rated_on >>

\* a mixed-mode checkbox whose change draws a new prompt for the card presented
ToggleMixedMode_reprompt ==
    /\ events < MaxEvents
    /\ events' = events + 1
    /\ srs_mixed_mode' = ~srs_mixed_mode
    /\ \E pt \in (IF srs_list = <<>> THEN {srs_prompt_type}
                   ELSE choose_srs_prompt_type(srs_list[srs_index + 1][1],
                                               srs_reverse_mode, ~srs_mixed_mode)) :
           ScriptRun(srs_list, srs_index, srs_revealed, pt, user_srs,
                     srs_reverse_mode, ~srs_mixed_mode, sess)
    /\ last_rate' = None
    /\ last_restart' = None
    /\ UNCHANGED << clock, srs_reverse_mode >>
    /\ UNCHANGED << fnVars, prVars, stVars, words_deleted, rated_on >>

\* the checkbox "Mixed prompt mode" is changed
ToggleMixedMode ==
    /\ events < MaxEvents
    /\ events' = events + 1
    /\ srs_mixed_mode' = ~srs_mixed_mode
    /\ ScriptRun(srs_list, srs_index, srs_revealed, srs_prompt_type, user_srs,
                 srs_reverse_mode, ~srs_mixed_mode, sess)
    /\ last_rate' = None
    /\ last_restart' = None
    /\ UNCHANGED << clock, srs_reverse_mode >>
    /\ UNCHANGED << fnVars, prVars, stVars, words_deleted, rated_on >>

ToggleReverseMode ==
    /\ events < MaxEvents
    /\ events' = events + 1
    /\ srs_reverse_mode' = ~srs_reverse_mode
    /\ ScriptRun(srs_list, srs_index, srs_revealed, srs_prompt_type, user_srs,
                 ~srs_reverse_mode, srs_mixed_mode, sess)
    /\ last_rate' = None
    /\ last_restart' = None
    /\ UNCHANGED << clock, srs_mixed_mode >>
    /\ UNCHANGED << fnVars, prVars, stVars, words_deleted, rated_on >>

\* a restart whose handler forgets ss.srs_index = 0
RestartReview_no_reset ==
    /\ events < MaxEvents
    /\ events' = events + 1
    /\ ScriptRun(<<>>, srs_index, FALSE, srs_prompt_type, user_srs, srs_reverse_mode,
                 srs_mixed_mode, None)
    /\ last_rate' = None
    /\ last_restart' = [len |-> Len(srs_list), index |-> srs_index, revealed |-> srs_revealed,
                        table |-> user_srs]
    /\ UNCHANGED << clock, srs_mixed_mode, srs_reverse_mode >>
    /\ UNCHANGED << fnVars, prVars, stVars, words_deleted, rated_on >>

\* button "Restart Review": the handler, then the run st.rerun() starts
RestartReview ==
    /\ events < MaxEvents
    /\ events' = events + 1
    /\ ScriptRun(<<>>, 0, FALSE, srs_prompt_type, user_srs, srs_reverse_mode, srs_mixed_mode,
                 None)
    /\ last_rate' = None
    /\ last_restart' = [len |-> Len(srs_list), index |-> srs_index, revealed |-> srs_revealed,
                        table |-> user_srs]
    /\ UNCHANGED << clock, srs_mixed_mode, srs_reverse_mode >>
    /\ UNCHANGED << fnVars, prVars, stVars, words_deleted, rated_on >>

\* a reveal that already persists the scheduler's result for Again
Reveal_persisting ==
    /\ srs_list # <<>>
    /\ ~srs_revealed
    /\ ScriptRun(srs_list, srs_index, TRUE, srs_prompt_type,
                 db_update_srs(user_srs, srs_list[srs_index + 1][2].id,
                               srs_next(srs_list[srs_index + 1][2], 0)),
                 srs_reverse_mode, srs_mixed_mode, sess)
    /\ last_rate' = None
    /\ last_restart' = None
    /\ UNCHANGED << clock, srs_mixed_mode, srs_reverse_mode, events >>
    /\ UNCHANGED << fnVars, prVars, stVars, words_deleted, rated_on >>

\* a reveal handler that draws a new prompt for the card revealed
Reveal_reprompt ==
    /\ srs_list # <<>>
    /\ ~srs_revealed
    /\ \E pt \in choose_srs_prompt_type(srs_list[srs_index + 1][1],
                                        srs_reverse_mode, srs_mixed_mode) :
           ScriptRun(srs_list, srs_index, TRUE, pt, user_srs,
                     srs_reverse_mode, srs_mixed_mode, sess)
    /\ last_rate' = None
    /\ last_restart' = None
    /\ UNCHANGED << clock, srs_mixed_mode, srs_reverse_mode, events >>
    /\ UNCHANGED << fnVars, prVars, stVars, words_deleted, rated_on >>

\* button "Reveal": the handler, then the run st.rerun() starts
Reveal ==
    /\ srs_list # <<>>
    /\ ~srs_revealed
    /\ ScriptRun(srs_list, srs_index, TRUE, srs_prompt_type, user_srs,
                 srs_reverse_mode, srs_mixed_mode, sess)
    /\ last_rate' = None
    /\ last_restart' = None
    /\ UNCHANGED << clock, srs_mixed_mode, srs_reverse_mode, events >>
    /\ UNCHANGED << fnVars, prVars, stVars, words_deleted, rated_on >>

\* a rating handler whose end-of-queue test is off by one
Rate_past_end(rating) ==
    /\ srs_list # <<>>
    /\ srs_revealed
    /\ events < MaxEvents
    /\ events' = events + 1
    /\ \E srs_entry \in {srs_list[srs_index + 1][2]} :
       \E updates \in {srs_next(srs_entry, rating)} :
       \E table2 \in {db_update_srs(user_srs, srs_entry.id, updates)} :
           IF srs_index + 1 > Len(srs_list)
           THEN ScriptRun(<<>>, 0, FALSE, srs_prompt_type, table2,
                          srs_reverse_mode, srs_mixed_mode, None)
           ELSE \E pt \in (IF srs_index + 1 = Len(srs_list) THEN {srs_prompt_type}
                           ELSE choose_srs_prompt_type(srs_list[srs_index + 2][1],
                                                       srs_reverse_mode, srs_mixed_mode)) :
                ScriptRun(srs_list, srs_index + 1, FALSE, pt, table2,
                          srs_reverse_mode, srs_mixed_mode,
                          [sess EXCEPT !.rated = sess.rated + 1])
    /\ last_rate' = [queue |-> srs_list, index |-> srs_index, rating |-> rating,
                     count |-> sess.rated + 1, started |-> sess.queue,
                     before |-> user_srs, today |-> isoformat(Today),
                     outcome |-> db_update_srs_outcome(user_srs, srs_list[srs_index + 1][2].id)]
    /\ rated_on' = rated_on \cup {<< srs_list[srs_index + 1][2].id, isoformat(Today) >>}
    /\ last_restart' = None
    /\ UNCHANGED << clock, srs_mixed_mode, srs_reverse_mode >>
    /\ UNCHANGED << fnVars, prVars, stVars, words_deleted >>

\* a rating handler that puts a card rated Again back at the end of the queue
Rate_requeue(rating) ==
    /\ srs_list # <<>>
    /\ srs_revealed
    /\ events < MaxEvents
    /\ events' = events + 1
    /\ \E srs_entry \in {srs_list[srs_index + 1][2]} :
       \E updates \in {srs_next(srs_entry, rating)} :
       \E table2 \in {db_update_srs(user_srs, srs_entry.id, updates)} :
       \E list2 \in {IF rating = 0 THEN Append(srs_list, srs_list[srs_index + 1]) ELSE srs_list} :
           IF srs_index + 1 >= Len(list2)
           THEN ScriptRun(<<>>, 0, FALSE, srs_prompt_type, table2,
                          srs_reverse_mode, srs_mixed_mode, None)
           ELSE \E pt \in choose_srs_prompt_type(list2[srs_index + 2][1],
                                                  srs_reverse_mode, srs_mixed_mode) :
                ScriptRun(list2, srs_index + 1, FALSE, pt, table2,
                          srs_reverse_mode, srs_mixed_mode,
                          [sess EXCEPT !.rated = sess.rated + 1])
    /\ last_rate' = [queue |-> srs_list, index |-> srs_index, rating |-> rating,
                     count |-> sess.rated + 1, started |-> sess.queue,
                     before |-> user_srs, today |-> isoformat(Today),
                     outcome |-> db_update_srs_outcome(user_srs, srs_list[srs_index + 1][2].id)]
    /\ rated_on' = rated_on \cup {<< srs_list[srs_index + 1][2].id, isoformat(Today) >>}
    /\ last_restart' = None
    /\ UNCHANGED << clock, srs_mixed_mode, srs_reverse_mode >>
    /\ UNCHANGED << fnVars, prVars, stVars, words_deleted >>

\* a rating handler that keeps the prompt of the card rated for the next card
Rate_keep_prompt(rating) ==
    /\ srs_list # <<>>
    /\ srs_revealed
    /\ events < MaxEvents
    /\ events' = events + 1
    /\ \E srs_entry \in {srs_list[srs_index + 1][2]} :
       \E updates \in {srs_next(srs_entry, rating)} :
       \E table2 \in {db_update_srs(user_srs, srs_entry.id, updates)} :
           IF srs_index + 1 >= Len(srs_list)
           THEN ScriptRun(<<>>, 0, FALSE, srs_prompt_type, table2,
                          srs_reverse_mode, srs_mixed_mode, None)
           ELSE ScriptRun(srs_list, srs_index + 1, FALSE, srs_prompt_type, table2,
                          srs_reverse_mode, srs_mixed_mode,
                          [sess EXCEPT !.rated = sess.rated + 1])
    /\ last_rate' = [queue |-> srs_list, index |-> srs_index, rating |-> rating,
                     count |-> sess.rated + 1, started |-> sess.queue,
                     before |-> user_srs, today |-> isoformat(Today),
                     outcome |-> db_update_srs_outcome(user_srs, srs_list[srs_index + 1][2].id)]
    /\ rated_on' = rated_on \cup {<< srs_list[srs_index + 1][2].id, isoformat(Today) >>}
    /\ last_restart' = None
    /\ UNCHANGED << clock, srs_mixed_mode, srs_reverse_mode >>
    /\ UNCHANGED << fnVars, prVars, stVars, words_deleted >>

\* a rating button: the handler, then the run st.rerun() starts
Rate(rating) ==
    /\ srs_list # <<>>
    /\ srs_revealed
    /\ events < MaxEvents
    /\ events' = events + 1
    /\ \E srs_entry \in {srs_list[srs_index + 1][2]} :
       \E updates \in {srs_next(srs_entry, rating)} :
       \E table2 \in {db_update_srs(user_srs, srs_entry.id, updates)} :
           IF srs_index + 1 >= Len(srs_list)
           THEN ScriptRun(<<>>, 0, FALSE, srs_prompt_type, table2,
                          srs_reverse_mode, srs_mixed_mode, None)
           ELSE \E pt \in choose_srs_prompt_type(srs_list[srs_index + 2][1],
                                                  srs_reverse_mode, srs_mixed_mode) :
                ScriptRun(srs_list, srs_index + 1, FALSE, pt, table2,
                          srs_reverse_mode, srs_mixed_mode,
                          [sess EXCEPT !.rated = sess.rated + 1])
    /\ last_rate' = [queue |-> srs_list, index |-> srs_index, rating |-> rating,
                     count |-> sess.rated + 1, started |-> sess.queue,
                     before |-> user_srs, today |-> isoformat(Today),
                     outcome |-> db_update_srs_outcome(user_srs, srs_list[srs_index + 1][2].id)]
    /\ rated_on' = rated_on \cup {<< srs_list[srs_index + 1][2].id, isoformat(Today) >>}
    /\ last_restart' = None
    /\ UNCHANGED << clock, srs_mixed_mode, srs_reverse_mode >>
    /\ UNCHANGED << fnVars, prVars, stVars, words_deleted >>

\* midnight passes
Tick ==
    /\ events < MaxEvents
    /\ events' = events + 1
    /\ clock' = clock + 1
    /\ last_rate' = None
    /\ last_restart' = None
    /\ UNCHANGED << user_srs, srs_list, srs_index, srs_revealed, srs_prompt_type,
                    srs_mixed_mode, srs_reverse_mode, last_collect, sess >>
    /\ UNCHANGED << fnVars, prVars, stVars, words_deleted, rated_on >>

\* button "Delete Word" of page Flashcards: the handler; the run it starts is
\* a run of that page, which leaves the review session as it is
DeleteWord(word_id) ==
    /\ events < MaxEvents
    /\ events' = events + 1
    /\ word_id \in {w.id : w \in WordRows}
    /\ words_deleted' = db_delete_word(words_deleted, word_id)
    /\ user_srs' = cascade_delete_srs(user_srs, word_id)
    /\ last_collect' = None
    /\ last_rate' = None
    /\ last_restart' = None
    /\ UNCHANGED << clock, srs_list, srs_index, srs_revealed, srs_prompt_type,
                    srs_mixed_mode, srs_reverse_mode, sess, rated_on >>
    /\ UNCHANGED << fnVars, prVars, stVars >>

----------------------------------------------------------------------------
(* Scheduler harness: srs_next applied to records drawn from a bounded set *)

SchedEases == {FloatLit(n) : n \in {20, 24, 26, 27, 30, 50, 52}}

SchedRatings == {-1, 0, 1, 2, 3, 4}

SchedInputs ==
    [srs_interval : 1..MaxSchedInterval, srs_ease : SchedEases, srs_reps : {0, 1},
     srs_due : {isoformat(AddDays(Epoch, 2)), isoformat(AddDays(Epoch, 9))}]

SchedCall(rating) ==
    /\ fn_steps < MaxSchedSteps
    /\ fn_steps' = fn_steps + 1
    /\ fn_rating' = rating
    /\ fn_result' = srs_next(fn_entry, rating)
    /\ fn_today' = isoformat(Today)
    /\ UNCHANGED << clock, fn_entry >>
    /\ UNCHANGED << sessionVars, prVars, stVars >>

\* the returned fields replace those of the record, as db_update_srs does
SchedStore ==
    /\ fn_result # None
    /\ fn_steps < MaxSchedSteps
    /\ fn_entry' = fn_result
    /\ fn_rating' = None
    /\ fn_result' = None
    /\ fn_today' = None
    /\ UNCHANGED << clock, fn_steps >>
    /\ UNCHANGED << sessionVars, prVars, stVars >>

----------------------------------------------------------------------------
(* Rating harness: one card rated again and again, from the record
   db_create_srs makes for it *)

\* the rating handler's call of srs_next on the record of the card
RateCall(rating) ==
    /\ fn_result = None
    /\ fn_steps < MaxRatings
    /\ fn_entry.srs_interval <= MaxRatedInterval
    /\ fn_steps' = fn_steps + 1
    /\ fn_rating' = rating
    /\ fn_result' = srs_next(fn_entry, rating)
    /\ fn_today' = isoformat(Today)
    /\ UNCHANGED << clock, fn_entry >>
    /\ UNCHANGED << sessionVars, prVars, stVars >>

\* the rating handler's call of db_update_srs, and the record as the next
\* selection reads it
RateStore ==
    /\ fn_result # None
    /\ fn_entry' = db_update_srs(<< fn_entry >>, fn_entry.id, fn_result)[1]
    /\ fn_rating' = None
    /\ fn_result' = None
    /\ fn_today' = None
    /\ UNCHANGED << clock, fn_steps >>
    /\ UNCHANGED << sessionVars, prVars, stVars >>

----------------------------------------------------------------------------
(* Prompt harness: choose_srs_prompt_type applied to cards of every shape *)

\* cards whose meaning and comment are empty or not (a blank is not empty)
PromptCards ==
    [id : {1}, lang : {"english"}, word : {<<99, 97, 116>>},
     meaning : {"", " ", "animal", "insect"}, comment : {"", "pet", "small"}]

PromptCall ==
    /\ pr_possible = {}
    /\ pr_possible' = choose_srs_prompt_type(pr_card, pr_reverse, pr_mixed)
    /\ pr_result' \in pr_possible'
    /\ UNCHANGED << pr_card, pr_reverse, pr_mixed, clock >>
    /\ UNCHANGED << sessionVars, fnVars, stVars >>

----------------------------------------------------------------------------
(* Study Mode page: the study history *)

\* ids of the rows of table users
Users == {1, 2}

db_add_study_event(table, user_id, date) == Append(table, [user_id |-> user_id, date |-> date])

db_get_study_history(table, user_id) ==
    LET OfUser(r) == r.user_id = user_id
        rows == SelectSeq(table, OfUser)
    IN  [i \in DOMAIN rows |-> rows[i].date]

\* "Record study history" without the look-up of today in the history
record_study_history_unchecked(table, user_id, today) ==
    db_add_study_event(table, user_id, today)

\* "Record study history" of the Start Study handler
record_study_history(table, user_id, today) ==
    LET history == db_get_study_history(table, user_id)
    IN  IF today \notin Range(history)
        THEN db_add_study_event(table, user_id, today)
        ELSE table

\* "Build study list" of the Start Study handler, before the shuffle
study_words(study_source) ==
    IF study_source = "All English Words" THEN db_get_words("english")
    ELSE IF study_source = "All Chinese Words" THEN db_get_words("chinese")
    ELSE LET all_words == db_get_words("english") \o db_get_words("chinese")
             Member(mid) == \E i \in DOMAIN all_words : all_words[i].id = mid
             found == SelectSeq(db_get_group_members, Member)
         IN  [k \in DOMAIN found |->
                 all_words[CHOOSE i \in DOMAIN all_words : all_words[i].id = found[k]]]

\* button "Start Study", offered while ss.study_list is empty
StartStudy ==
    /\ study_list = <<>>
    /\ Len(study_starts) < MaxStudyStarts
    /\ study_starts' = Append(study_starts, <<current_user_id, isoformat(Today)>>)
    /\ study_history' = record_study_history(study_history, current_user_id, isoformat(Today))
    /\ \E study_source \in ReviewSources, shuffle \in BOOLEAN :
           study_list' \in shuffled(study_words(study_source), shuffle)
    /\ UNCHANGED << current_user_id, clock >>
    /\ UNCHANGED << sessionVars, fnVars, prVars >>

\* button "End" of a study session
EndStudy ==
    /\ study_list # <<>>
    /\ study_list' = <<>>
    /\ UNCHANGED << study_history, current_user_id, study_starts, clock >>
    /\ UNCHANGED << sessionVars, fnVars, prVars >>

\* another profile is selected in the sidebar
SelectUser(user_id) ==
    /\ user_id # current_user_id
    /\ current_user_id' = user_id
    /\ UNCHANGED << study_history, study_list, study_starts, clock >>
    /\ UNCHANGED << sessionVars, fnVars, prVars >>

----------------------------------------------------------------------------
(* Specifications *)

StudyIdle ==
    /\ study_history = <<>>
    /\ study_list = <<>>
    /\ current_user_id = 1
    /\ study_starts = <<>>

PromptIdle ==
    /\ pr_card = None
    /\ pr_reverse = FALSE
    /\ pr_mixed = FALSE
    /\ pr_result = ""
    /\ pr_possible = {}

SessionInit ==
    /\ user_srs = <<>>
    /\ srs_list = <<>>
    /\ srs_index = 0
    /\ srs_revealed = FALSE
    /\ srs_prompt_type = "word"
    /\ srs_mixed_mode = FALSE
    /\ srs_reverse_mode = FALSE
    /\ last_collect = None
    /\ events = 0
    /\ sess = None
    /\ last_rate = None
    /\ last_restart = None
    /\ words_deleted = {}
    /\ rated_on = {}

Init ==
    /\ clock = 0
    /\ SessionInit
    /\ fn_entry = None
    /\ fn_rating = None
    /\ fn_result = None
    /\ fn_today = None
    /\ fn_steps = 0
    /\ PromptIdle
    /\ StudyIdle

Next ==
    \/ OpenPage
    \/ ToggleMixedMode
    \/ ToggleReverseMode
    \/ RestartReview
    \/ Reveal
    \/ \E rating \in 0..3 : Rate(rating)
    \/ Tick

Spec == Init /\ [][Next]_vars

SchedInit ==
    /\ clock = 0
    /\ SessionInit
    /\ fn_entry \in SchedInputs
    /\ fn_rating = None
    /\ fn_result = None
    /\ fn_today = None
    /\ fn_steps = 0
    /\ PromptIdle
    /\ StudyIdle

SchedNext ==
    \/ \E rating \in SchedRatings : SchedCall(rating)
    \/ SchedStore
    \/ Tick

SpecSched == SchedInit /\ [][SchedNext]_vars

PromptInit ==
    /\ clock = 0
    /\ SessionInit
    /\ fn_entry = None
    /\ fn_rating = None
    /\ fn_result = None
    /\ fn_today = None
    /\ fn_steps = 0
    /\ pr_card \in PromptCards
    /\ pr_reverse \in BOOLEAN
    /\ pr_mixed \in BOOLEAN
    /\ pr_result = ""
    /\ pr_possible = {}
    /\ StudyIdle

PromptNext == PromptCall

SpecPrompt == PromptInit /\ [][PromptNext]_vars

StudyNext ==
    \/ StartStudy
    \/ EndStudy
    \/ \E user_id \in Users : SelectUser(user_id)
    \/ Tick

SpecStudy == Init /\ [][StudyNext]_vars

RatingInit ==
    /\ clock = 0
    /\ SessionInit
    /\ fn_entry = db_create_srs(<<>>, CurrentUser, 1)
    /\ fn_rating = None
    /\ fn_result = None
    /\ fn_today = None
    /\ fn_steps = 0
    /\ PromptIdle
    /\ StudyIdle

RatingNext ==
    \/ \E rating \in 0..3 : RateCall(rating)
    \/ RateStore

SpecRating == RatingInit /\ [][RatingNext]_vars

\* the review session with cards deleted from the word list meanwhile
StoreNext ==
    \/ Next
    \/ \E word_id \in {w.id : w \in Range(Words)} : DeleteWord(word_id)

SpecStore == Init /\ [][StoreNext]_vars

----------------------------------------------------------------------------
(* Vocabulary of the properties *)

\* value(x) >= k for a float x on the scale DEN and an integer k
FloatGeqInt(x, k, DEN) == x.n > DEN * k \/ (x.n = DEN * k /\ x.d >= 0)

\* k = floor(value(x))
IsFloorOf(k, x, DEN) == FloatGeqInt(x, k, DEN) /\ ~FloatGeqInt(x, k + 1, DEN)

FloatGeq(x, y) == ~FloatLess(x, y)

\* the date a YYYY-MM-DD string denotes
ParseIso(str) ==
    [y |-> (str[1] - 48) * 1000 + (str[2] - 48) * 100 + (str[3] - 48) * 10 + (str[4] - 48),
     m |-> (str[6] - 48) * 10 + (str[7] - 48),
     d |-> (str[9] - 48) * 10 + (str[10] - 48)]

RECURSIVE DaysBeforeMonth(_, _)
DaysBeforeMonth(y, m) == IF m = 1 THEN 0 ELSE DaysBeforeMonth(y, m - 1) + DaysInMonth(y, m - 1)

\* proleptic Gregorian ordinal of a date
ToOrdinal(dt) ==
    LET p == dt.y - 1
    IN  p * 365 + (p \div 4) - (p \div 100) + (p \div 400) + DaysBeforeMonth(dt.y, dt.m) + dt.d

\* the day number of a YYYY-MM-DD string
DayOf(str) == ToOrdinal(ParseIso(str))

\* srs_next has been called and has returned fn_result
Called == fn_result # None

ValidRating == Called /\ fn_rating \in 0..3

----------------------------------------------------------------------------
(* Scheduler properties, under SpecSched *)

\* C1 as stated: for every rating and every input record, whatever its ease,
\* the returned ease is at least 1.3.
C1_EaseFloorAnyInput ==
    ValidRating => FloatGeq(fn_result.srs_ease, FloatLit(26))

\* C1 amended: after Again and Hard the returned ease is at least 1.3 whatever
\* the input ease; after Good and Easy it is at least 1.3 when the input ease is.
C1_EaseFloor ==
    ValidRating =>
        ((fn_rating \in {0, 1} \/ FloatGeq(fn_entry.srs_ease, FloatLit(26)))
            => FloatGeq(fn_result.srs_ease, FloatLit(26)))

C1_Witness ==
    /\ Called
    /\ fn_rating = 0
    /\ FloatLess(fn_entry.srs_ease, FloatLit(26))
    /\ fn_result.srs_ease = FloatLit(26)

ValidRecord(r) == r.srs_interval >= 1 /\ FloatGeq(r.srs_ease, FloatLit(26))

\* C2: a rating of a record with interval >= 1 and ease >= 1.3 returns interval >= 1
\* and ease >= 1.3, and the record db_create_srs inserts has both, so both hold
\* of every stored record.
C2_IntervalFloor ==
    /\ ValidRecord(db_create_srs(user_srs, CurrentUser, 1))
    /\ (ValidRating /\ ValidRecord(fn_entry)) => ValidRecord(fn_result)

C2_Witness ==
    /\ ValidRating
    /\ fn_steps = 2
    /\ ValidRecord(fn_entry)
    /\ fn_entry.srs_ease = FloatLit(26)
    /\ fn_entry.srs_interval = 1
    /\ fn_rating = 2
    /\ fn_result.srs_interval = 1

\* C3: Again returns interval 1, repetitions 0 and ease max(1.3, ease - 0.2);
\* {interval 1, ease 2.5, reps 0} gives {interval 1, ease 2.3, reps 0}.
C3_Again ==
    (Called /\ fn_rating = 0) =>
        LET lowered == FloatSub(fn_entry.srs_ease, FloatLit(4))
        IN  /\ fn_result.srs_interval = 1
            /\ fn_result.srs_reps = 0
            /\ fn_result.srs_ease = (IF FloatLess(lowered, FloatLit(26)) THEN FloatLit(26) ELSE lowered)
            /\ fn_entry.srs_ease = FloatLit(50) => fn_result.srs_ease = FloatLit(46)

C3_Witness ==
    /\ Called
    /\ fn_rating = 0
    /\ fn_entry.srs_interval = 3
    /\ fn_entry.srs_reps = 1
    /\ fn_entry.srs_ease = FloatLit(50)
    /\ fn_result.srs_ease = FloatLit(46)

\* C4: Good returns interval floor(interval * ease), repetitions + 1, ease unchanged.
C4_Good ==
    (Called /\ fn_rating = 2) =>
        /\ IsFloorOf(fn_result.srs_interval, FloatMulInt(fn_entry.srs_interval, fn_entry.srs_ease), 20)
        /\ fn_result.srs_reps = fn_entry.srs_reps + 1
        /\ fn_result.srs_ease = fn_entry.srs_ease

C4_Witness ==
    /\ Called
    /\ fn_rating = 2
    /\ fn_entry.srs_interval = 3
    /\ fn_entry.srs_ease = FloatLit(50)
    /\ fn_result.srs_interval = 7

\* C5: Hard returns interval max(1, floor(interval * 1.2)), ease max(1.3, ease - 0.15),
\* repetitions + 1.
C5_Hard ==
    (Called /\ fn_rating = 1) =>
        LET lowered == FloatSub(fn_entry.srs_ease, FloatLit(3))
            grown == FloatMulInt(fn_entry.srs_interval, FloatLit(24))
        IN  /\ \/ IsFloorOf(fn_result.srs_interval, grown, 20) /\ fn_result.srs_interval >= 1
               \/ fn_result.srs_interval = 1 /\ ~FloatGeqInt(grown, 1, 20)
            /\ fn_result.srs_interval = IntMax(1, (6 * fn_entry.srs_interval) \div 5)
            /\ fn_result.srs_ease = (IF FloatLess(lowered, FloatLit(26)) THEN FloatLit(26) ELSE lowered)
            /\ fn_result.srs_reps = fn_entry.srs_reps + 1

C5_Witness ==
    /\ Called
    /\ fn_rating = 1
    /\ fn_entry.srs_interval = 5
    /\ fn_result.srs_interval = 6
    /\ fn_entry.srs_ease = FloatLit(50)
    /\ fn_result.srs_ease = FloatLit(47)

\* C6: Easy returns interval floor(interval * ease * 1.3) with the ease before the
\* update, ease + 0.1, repetitions + 1; {interval 2, ease 2.5, reps 1} gives
\* interval 6, ease 2.6, reps 2.
C6_Easy ==
    (Called /\ fn_rating = 3) =>
        /\ IsFloorOf(fn_result.srs_interval,
                     FloatMul(FloatMulInt(fn_entry.srs_interval, fn_entry.srs_ease), FloatLit(26)), 400)
        /\ fn_result.srs_ease = FloatAdd(fn_entry.srs_ease, FloatLit(2))
        /\ FloatLess(fn_entry.srs_ease, fn_result.srs_ease)
        /\ fn_result.srs_reps = fn_entry.srs_reps + 1
        /\ (fn_entry.srs_interval = 2 /\ fn_entry.srs_ease = FloatLit(50) /\ fn_entry.srs_reps = 1)
              => (fn_result.srs_interval = 6 /\ fn_result.srs_ease = FloatLit(52) /\ fn_result.srs_reps = 2)

C6_Witness ==
    /\ Called
    /\ fn_rating = 3
    /\ fn_entry.srs_interval = 3
    /\ fn_entry.srs_ease = FloatLit(50)
    /\ fn_entry.srs_reps = 1
    /\ fn_result.srs_interval = 9
    /\ fn_result.srs_ease = FloatLit(52)

\* C7: for every rating the returned due date is today plus the new interval in
\* days; {interval 1, ease 2.5} rated Good on 2025-01-01 is due 2025-01-03.
C7_Due ==
    ValidRating =>
        /\ DayOf(fn_result.srs_due) = DayOf(fn_today) + fn_result.srs_interval
        /\ (fn_rating = 2 /\ fn_entry.srs_interval = 1 /\ fn_entry.srs_ease = FloatLit(50)
               /\ fn_today = <<50, 48, 50, 53, 45, 48, 49, 45, 48, 49>>)
              => fn_result.srs_due = <<50, 48, 50, 53, 45, 48, 49, 45, 48, 51>>

C7_Witness ==
    /\ Called
    /\ fn_rating = 2
    /\ fn_entry.srs_interval = 1
    /\ fn_entry.srs_ease = FloatLit(50)
    /\ fn_entry.srs_due = <<50, 48, 50, 53, 45, 48, 49, 45, 48, 49>>
    /\ fn_today = <<50, 48, 50, 53, 45, 48, 49, 45, 48, 49>>
    /\ fn_result.srs_interval = 2
    /\ fn_result.srs_due = <<50, 48, 50, 53, 45, 48, 49, 45, 48, 51>>

\* C8 as stated: a rating outside {0, 1, 2, 3} is rejected: a call of srs_next
\* with such a rating returns no record, no due date is computed from it.
C8_InvalidRatingRejected ==
    (Called /\ fn_rating \notin 0..3) => "srs_due" \notin DOMAIN fn_result

----------------------------------------------------------------------------
(* Due-set properties, under Spec *)

\* the latest script run called collect_due_cards
Collected == last_collect # None

InDueSet(w) == \E i \in DOMAIN last_collect.due_cards : last_collect.due_cards[i][1] = w

RecordOf(w) == db_get_srs(user_srs, CurrentUser, w.id)

Position(seq, x) == CHOOSE k \in DOMAIN seq : seq[k] = x

Count(seq, x) == Cardinality({k \in DOMAIN seq : seq[k] = x})

SameElements(a, b) ==
    /\ Len(a) = Len(b)
    /\ \A x \in Range(a) \cup Range(b) : Count(a, x) = Count(b, x)

\* C9: a candidate card of the source is in the due set exactly when review_ahead
\* is set or its record's due date is today or earlier.
C9_DueSelection ==
    Collected =>
        /\ \A w \in Range(source_words(last_collect.review_source)) :
              /\ RecordOf(w) # None
              /\ InDueSet(w) <=> (\/ last_collect.review_ahead
                                  \/ DayOf(RecordOf(w).srs_due) <= DayOf(last_collect.today))
        /\ \A i \in DOMAIN last_collect.due_cards :
              last_collect.due_cards[i][2] = RecordOf(last_collect.due_cards[i][1])

C9_Witness ==
    /\ Collected
    /\ ~last_collect.review_ahead
    /\ \E w1, w2 \in Range(source_words(last_collect.review_source)) :
          /\ InDueSet(w1)
          /\ DayOf(RecordOf(w1).srs_due) = DayOf(last_collect.today)
          /\ ~InDueSet(w2)
          /\ DayOf(RecordOf(w2).srs_due) = DayOf(last_collect.today) + 1

\* C10: the due set lists the due cards in the source's iteration order, none
\* twice; the queue is the due set itself without shuffle and a permutation of
\* it with shuffle.
C10_DueOrder ==
    Collected =>
        LET src == source_words(last_collect.review_source)
            due == last_collect.due_cards
        IN  /\ \A i \in DOMAIN due : due[i][1] \in Range(src)
            /\ \A i, k \in DOMAIN due :
                  i < k => Position(src, due[i][1]) < Position(src, due[k][1])
            /\ last_collect.review_source # "Study Group" =>
                  \A i, k \in DOMAIN due : i < k => StrLess(due[i][1].word, due[k][1].word)
            /\ due # <<>> =>
                  /\ SameElements(srs_list, due)
                  /\ ~last_collect.shuffle => srs_list = due

C10_Witness ==
    /\ Collected
    /\ last_collect.shuffle
    /\ Len(last_collect.due_cards) = 2
    /\ srs_list # last_collect.due_cards
    /\ SameElements(srs_list, last_collect.due_cards)

----------------------------------------------------------------------------
(* Session properties, under Spec *)

\* the latest step submitted a rating
Rated == last_rate # None

\* no session is active: nothing is queued and no card is presented
NoSession == srs_list = <<>> /\ srs_index = 0 /\ sess = None

\* C11 as stated: in a session whose queue has N cards, once the N-th rating is
\* submitted the session is Complete and the queue is empty, and after fewer
\* than N ratings it is not.
C11_CompleteAfterAllRated ==
    Rated =>
        /\ last_rate.count = Len(last_rate.started) => NoSession
        /\ last_rate.count < Len(last_rate.started) => srs_list # <<>>

\* C12 as stated: once the position passes the end of the queue the queue is
\* cleared, no card is presented and no new queue is built (none until a restart).
C12_CompleteIsTerminal ==
    (Rated /\ last_rate.index + 1 >= Len(last_rate.queue)) =>
        /\ srs_list = <<>>
        /\ ~(Collected /\ last_collect.due_cards # <<>>)

\* the latest step was a press of Restart Review
Restarted == last_restart # None

\* every row of table old is still in table new, unchanged
RowsKept(old, new) ==
    /\ Len(new) >= Len(old)
    /\ \A i \in DOMAIN old : new[i] = old[i]

\* C13 as stated: from any session state a restart leaves the queue empty, the
\* position 0 and revealed false, and persists no update of an SRS record.
C13_RestartClearsQueue ==
    Restarted =>
        /\ srs_list = <<>>
        /\ srs_index = 0
        /\ ~srs_revealed
        /\ RowsKept(last_restart.table, user_srs)

\* C13 amended: from any session state a restart drops the queue, sets the
\* position to 0 and revealed to false and persists no update of an existing
\* record; the run it triggers collects the due set at once, and the queue
\* is that new due set: it is empty only when no card is due.
C13_Restart ==
    Restarted =>
        /\ srs_index = 0
        /\ ~srs_revealed
        /\ RowsKept(last_restart.table, user_srs)
        /\ Collected
        /\ SameElements(srs_list, last_collect.due_cards)
        /\ srs_list # <<>> => (sess # None /\ sess.queue = srs_list /\ sess.rated = 0)
        /\ srs_list = <<>> => sess = None

\* a restart from the second card, revealed, of a two-card session with the
\* first card rated, that leaves a new queue at position 0
C13_Witness ==
    /\ Restarted
    /\ last_restart.index = 1
    /\ last_restart.revealed
    /\ last_restart.len = 2
    /\ \E i \in DOMAIN last_restart.table : last_restart.table[i].srs_reps = 1
    /\ srs_list # <<>>
    /\ srs_index = 0
    /\ ~srs_revealed

\* the table after the record with this id took the fields srs_next returned
Persisted(table, snapshot, rating) ==
    LET updates == srs_next(snapshot, rating)
    IN  [i \in DOMAIN table |->
            IF table[i].id = snapshot.id
            THEN [table[i] EXCEPT !.srs_interval = updates.srs_interval,
                                  !.srs_ease = updates.srs_ease,
                                  !.srs_reps = updates.srs_reps,
                                  !.srs_due = updates.srs_due]
            ELSE table[i]]

\* no card is queued twice
NoRepeat(queue) ==
    \A i, k \in DOMAIN queue : queue[i][1].id = queue[k][1].id => i = k

\* the step keeps the active session: a queue before, a queue after, none collected
SessionContinues ==
    /\ srs_list # <<>>
    /\ srs_list' # <<>>
    /\ ~(last_collect' # None /\ clock' = clock)

\* C14: within a session the queue is the one the session started with, no card
\* is in it twice, the position is the number of ratings submitted, so the
\* k-th rating is applied to the record of queue[k-1] and to no other; the
\* position never decreases and a card rated Again is not put back.
C14_SinglePass ==
    /\ [](/\ (srs_list # <<>>) <=> (sess # None)
          /\ srs_list # <<>> =>
                /\ srs_list = sess.queue
                /\ NoRepeat(srs_list)
                /\ srs_index = sess.rated
          /\ Rated =>
                /\ last_rate.queue = last_rate.started
                /\ last_rate.index = last_rate.count - 1
                /\ RowsKept(Persisted(last_rate.before,
                                      last_rate.queue[last_rate.count][2], last_rate.rating),
                            user_srs))
    /\ [][SessionContinues =>
            /\ srs_list' = srs_list
            /\ srs_index' \in {srs_index, srs_index + 1}
            /\ srs_index' = srs_index + 1 <=> last_rate' # None]_vars

\* the first card of a two-card session was rated Again: the queue is as it
\* was and the second card is presented
C14_Witness ==
    /\ Rated
    /\ last_rate.rating = 0
    /\ last_rate.count = 1
    /\ Len(last_rate.started) = 2
    /\ srs_list = last_rate.started
    /\ srs_index = 1
    /\ ~srs_revealed

\* the record db_create_srs made for a card is still as it was made
Untouched(row) == row.srs_interval = 1 /\ row.srs_ease = DefaultEase /\ row.srs_reps = 0

\* C15: a step changes a stored record only if it submits a rating, for a
\* revealed card, and then only the record of the card presented; no record
\* is removed.  Starting, revealing, changing a setting and restarting leave
\* every existing record as it is.
C15_OnlyRatingMutates ==
    [][/\ Len(user_srs') >= Len(user_srs)
       /\ \A i \in DOMAIN user_srs :
             user_srs'[i] # user_srs[i] =>
                 /\ last_rate' # None
                 /\ srs_revealed
                 /\ user_srs[i].id = srs_list[srs_index + 1][2].id]_vars

\* a two-card session was abandoned by a restart with its first card revealed
\* and not rated: every record is still as it was created
C15_Witness ==
    /\ Restarted
    /\ last_restart.len = 2
    /\ last_restart.index = 0
    /\ last_restart.revealed
    /\ Len(user_srs) = 2
    /\ \A i \in DOMAIN user_srs : Untouched(user_srs[i])

----------------------------------------------------------------------------
(* Prompt properties, under SpecPrompt *)

\* choose_srs_prompt_type has been called and has returned pr_result
Prompted == pr_possible # {}

\* C16: with reverse mode on the prompt is the comment if the card has one,
\* else the meaning if it has one, else the word, and nothing else can be
\* returned; mixed mode being on as well changes nothing.
C16_ReverseMode ==
    (Prompted /\ pr_reverse) =>
        LET expected == IF pr_card.comment # "" THEN "comment"
                        ELSE IF pr_card.meaning # "" THEN "meaning"
                        ELSE "word"
        IN  pr_result = expected /\ pr_possible = {expected}

\* both modes on, a card with a meaning and no comment: the meaning is the prompt
C16_Witness ==
    /\ Prompted
    /\ pr_reverse
    /\ pr_mixed
    /\ pr_card.comment = ""
    /\ pr_card.meaning = "animal"
    /\ pr_result = "meaning"

\* C17: with mixed mode on and reverse mode off the possible prompts are exactly
\* the word, the meaning if it is not empty and the comment if it is not empty;
\* a card with neither always gets the word.  With both modes off the prompt
\* is always the word.
C17_MixedMode ==
    (Prompted /\ ~pr_reverse) =>
        /\ pr_result \in pr_possible
        /\ pr_mixed =>
              /\ "word" \in pr_possible
              /\ "meaning" \in pr_possible <=> pr_card.meaning # ""
              /\ "comment" \in pr_possible <=> pr_card.comment # ""
              /\ pr_possible \subseteq {"word", "meaning", "comment"}
              /\ (pr_card.meaning = "" /\ pr_card.comment = "") => pr_result = "word"
        /\ ~pr_mixed => (pr_result = "word" /\ pr_possible = {"word"})

\* mixed mode, a card with a meaning and a comment: the comment was drawn
C17_Witness ==
    /\ Prompted
    /\ ~pr_reverse
    /\ pr_mixed
    /\ pr_card.meaning = "animal"
    /\ pr_card.comment = "pet"
    /\ pr_result = "comment"
    /\ pr_possible = {"word", "meaning", "comment"}

----------------------------------------------------------------------------
(* Study history properties, under SpecStudy *)

\* entries of the study history for this user and date
Entries(user_id, date) ==
    Cardinality({i \in DOMAIN study_history :
                    study_history[i].user_id = user_id /\ study_history[i].date = date})

\* presses of Start Study by this user on this date
Starts(user_id, date) ==
    Cardinality({i \in DOMAIN study_starts : study_starts[i] = <<user_id, date>>})

\* C18: however many times the study event of a user and a date is recorded,
\* the history holds exactly one entry for them (and none if it never was).
C18_StudyEventOnce ==
    \A user_id \in Users, day \in 0..MaxEvents :
        LET date == isoformat(AddDays(Epoch, day))
        IN  Entries(user_id, date) = (IF Starts(user_id, date) > 0 THEN 1 ELSE 0)

\* a user started a study twice on one day and has one entry for that day
C18_Witness ==
    \E user_id \in Users :
        /\ Starts(user_id, isoformat(Today)) = 2
        /\ Entries(user_id, isoformat(Today)) = 1
        /\ Len(study_history) = 2

----------------------------------------------------------------------------
(* Mode properties, under Spec *)

\* the prompts a card may get under the given modes
PromptsFor(card, reverse_mode, mixed_mode) ==
    IF reverse_mode
    THEN IF card.comment # "" THEN {"comment"}
         ELSE IF card.meaning # "" THEN {"meaning"} ELSE {"word"}
    ELSE IF mixed_mode
    THEN {p \in {"word", "meaning", "comment"} :
             \/ p = "word"
             \/ p = "meaning" /\ card.meaning # ""
             \/ p = "comment" /\ card.comment # ""}
    ELSE {"word"}

\* the latest step computed the prompt of the card presented: it started the
\* session or it rated the card before
PromptComputed ==
    /\ srs_list # <<>>
    /\ (last_collect # None \/ Rated)

\* C19 as stated: while a session is active mixed_mode and reverse_mode keep the
\* values the session started with.
C19_ModesFixedInSession ==
    sess # None => (srs_mixed_mode = sess.mixed /\ srs_reverse_mode = sess.reverse)

\* C19 amended: the modes can be changed while a session is active; a change
\* leaves the queue, the position and the prompt of the card presented as they
\* are, and every prompt is computed with the mode values in effect when it
\* is computed, at session start or on the rating that moves to the card.
C19_ModesAtPromptTime ==
    /\ [](PromptComputed =>
              srs_prompt_type \in PromptsFor(srs_list[srs_index + 1][1],
                                             srs_reverse_mode, srs_mixed_mode))
    /\ [][(/\ SessionContinues
            /\ (srs_mixed_mode' # srs_mixed_mode \/ srs_reverse_mode' # srs_reverse_mode)) =>
               /\ srs_list' = srs_list
               /\ srs_index' = srs_index
               /\ srs_revealed' = srs_revealed
               /\ srs_prompt_type' = srs_prompt_type]_vars

\* mixed mode was switched on after the session started, and the rating of
\* the first card then drew the meaning as the prompt of the second
C19_Witness ==
    /\ sess # None
    /\ ~sess.mixed
    /\ srs_mixed_mode
    /\ ~srs_reverse_mode
    /\ Rated
    /\ srs_index = 1
    /\ srs_prompt_type = "meaning"

----------------------------------------------------------------------------
(* Position bounds, under Spec *)

\* a card is being presented, revealed or not
Presenting == srs_list # <<>>

\* C20: in every reachable state 0 <= position <= len(queue), and whenever a
\* card is being presented position < len(queue), so queue[position] is in
\* range after any sequence of start, reveal, rate and restart.
C20_PositionInRange ==
    /\ 0 <= srs_index
    /\ srs_index <= Len(srs_list)
    /\ Presenting => srs_index < Len(srs_list)

\* a rating moved the session to the last card of a queue of two
C20_Witness ==
    /\ Presenting
    /\ Rated
    /\ Len(srs_list) = 2
    /\ srs_index = Len(srs_list) - 1
    /\ last_rate.index = 0

----------------------------------------------------------------------------
(* Session start, under Spec *)

\* C21: a script run that finds no session collects the due set.  If it is not
\* empty the session starts: the queue is the due set (in the order collected,
\* or in some order when shuffle is set), the position is 0, the card is not
\* revealed and the prompt is one chosen for the first card of the queue.  If
\* it is empty no session starts: the queue stays empty, the position 0, the
\* card not revealed, and the run ends in an ordinary state.
C21_StartFromIdle ==
    Collected =>
        IF last_collect.due_cards # <<>>
        THEN /\ SameElements(srs_list, last_collect.due_cards)
             /\ ~last_collect.shuffle => srs_list = last_collect.due_cards
             /\ srs_index = 0
             /\ ~srs_revealed
             /\ srs_prompt_type \in PromptsFor(srs_list[1][1], srs_reverse_mode, srs_mixed_mode)
             /\ sess # None
        ELSE /\ srs_list = <<>>
             /\ srs_index = 0
             /\ ~srs_revealed
             /\ sess = None

\* the only card of a session was rated, and the run that followed found
\* nothing due: no session is active
C21_Witness ==
    /\ Rated
    /\ Collected
    /\ last_collect.due_cards = <<>>
    /\ ~last_collect.review_ahead
    /\ NoSession
    /\ ~srs_revealed

----------------------------------------------------------------------------
(* Reveal, under Spec *)

\* the step reveals the card presented
Revealing == ~srs_revealed /\ srs_revealed'

\* the step starts a session
SessionStarts == last_collect' # None /\ srs_list' # <<>> /\ sess' # None /\ sess'.rated = 0

\* the step submits a rating that moves the session to its next card
RatingAdvances == last_rate' # None /\ srs_list' = srs_list /\ srs_index' = srs_index + 1

\* C22: the reveal of a card that waits for it changes the revealed flag, to
\* true, and nothing else: queue, position, prompt, mode flags and every stored
\* record stay as they are.  The prompt changes only in a step that changes the
\* card presented, a session start or a rating that advances the position, and
\* in no step that leaves a card revealed.
C22_RevealOnlyReveals ==
    [][/\ Revealing =>
             /\ srs_list # <<>>
             /\ srs_list' = srs_list
             /\ srs_index' = srs_index
             /\ srs_prompt_type' = srs_prompt_type
             /\ srs_mixed_mode' = srs_mixed_mode
             /\ srs_reverse_mode' = srs_reverse_mode
             /\ user_srs' = user_srs
       /\ srs_prompt_type' # srs_prompt_type =>
             /\ SessionStarts \/ RatingAdvances
             /\ ~srs_revealed']_vars

\* the second card of a mixed-mode session is revealed and still shows the
\* comment it was given as its prompt, one of three it could be given
C22_Witness ==
    /\ srs_revealed
    /\ srs_mixed_mode
    /\ ~srs_reverse_mode
    /\ Len(srs_list) = 2
    /\ srs_index = 1
    /\ srs_prompt_type = "comment"

----------------------------------------------------------------------------
(* Rating, under Spec *)

\* the record the rated card had in the queue
RatedSnapshot == last_rate.queue[last_rate.index + 1][2]

\* C23 as stated: a rating is submitted only for a revealed card; it gives the
\* record of queue[position] and the rating to the scheduler, stores the result
\* in that record and adds one to the position; then, with cards left, the next
\* card is presented unrevealed with a prompt chosen for it, and with none left
\* the session is complete: the queue is empty and no card is presented.
C23_RatingStep ==
    /\ [](Rated =>
            /\ RowsKept(Persisted(last_rate.before, RatedSnapshot, last_rate.rating), user_srs)
            /\ IF last_rate.index + 1 < Len(last_rate.queue)
               THEN /\ srs_list = last_rate.queue
                    /\ srs_index = last_rate.index + 1
                    /\ ~srs_revealed
                    /\ srs_prompt_type \in PromptsFor(srs_list[srs_index + 1][1],
                                                      srs_reverse_mode, srs_mixed_mode)
               ELSE NoSession /\ ~srs_revealed)
    /\ [][last_rate' # None => (srs_list # <<>> /\ srs_revealed)]_vars

----------------------------------------------------------------------------
(* Fetch-or-create, under Spec *)

\* the rows of the table for this user and card
RowsOf(table, user_id, word_id) ==
    {i \in DOMAIN table : table[i].user_id = user_id /\ table[i].word_id = word_id}

\* the row is as db_create_srs makes it on this day
IsDefaultRow(row, tdy) ==
    /\ row.srs_interval = 1
    /\ row.srs_ease = FloatLit(50)
    /\ row.srs_reps = 0
    /\ row.srs_due = tdy

\* C24: the table never holds two records for one user and card.  A due-set
\* selection gives every card of its source exactly one record: a card that
\* had none gets one new record with interval 1, ease 2.5, repetitions 0 and
\* due today, and is in the due set of that selection; a card that had one
\* gets no new one, and the record the selection returns for it is the stored
\* one.  Rows are added by selections only, and a step that submits no rating
\* leaves every existing row as it is.
C24_FetchOrCreate ==
    /\ [](/\ \A i, k \in DOMAIN user_srs :
                (user_srs[i].user_id = user_srs[k].user_id
                    /\ user_srs[i].word_id = user_srs[k].word_id) => i = k
          /\ Collected =>
                /\ \A w \in Range(source_words(last_collect.review_source)) :
                      Cardinality(RowsOf(user_srs, CurrentUser, w.id)) = 1
                /\ \A k \in DOMAIN last_collect.due_cards :
                      \E i \in RowsOf(user_srs, CurrentUser, last_collect.due_cards[k][1].id) :
                          user_srs[i] = last_collect.due_cards[k][2])
    /\ [][/\ Len(user_srs') >= Len(user_srs)
          /\ Len(user_srs') > Len(user_srs) => last_collect' # None
          /\ last_rate' = None => \A i \in DOMAIN user_srs : user_srs'[i] = user_srs[i]
          /\ \A i \in DOMAIN user_srs' \ DOMAIN user_srs :
                /\ IsDefaultRow(user_srs'[i], last_collect'.today)
                /\ user_srs'[i].user_id = CurrentUser
                /\ RowsOf(user_srs, CurrentUser, user_srs'[i].word_id) = {}
                /\ \E k \in DOMAIN last_collect'.due_cards :
                      /\ last_collect'.due_cards[k][1].id = user_srs'[i].word_id
                      /\ last_collect'.due_cards[k][2] = user_srs'[i]]_vars

\* a selection without review-ahead made a record for a second card and found
\* the record of the first, rated before, which it did not return as due
C24_Witness ==
    /\ Collected
    /\ ~last_collect.review_ahead
    /\ Len(user_srs) = 2
    /\ Len(last_collect.due_cards) = 1
    /\ Untouched(last_collect.due_cards[1][2])
    /\ last_collect.due_cards[1][2].id = 2
    /\ user_srs[1].srs_reps = 1

----------------------------------------------------------------------------
(* Rating of a card whose record was deleted, under SpecStore *)

\* the latest step rated a card whose record had been deleted
RatedDeleted ==
    /\ Rated
    /\ \A i \in DOMAIN last_rate.before : last_rate.before[i].id # RatedSnapshot.id

\* C25 as stated: when the record of the card presented has been deleted before
\* its rating is submitted, the update is reported to the rating handler as a
\* failure, no record is created for the card or changed, and the session goes
\* on: to the next card, or to its end after the last card.
C25_DeletedRecordReported ==
    RatedDeleted =>
        /\ last_rate.outcome = "raised"
        /\ RowsKept(last_rate.before, user_srs)
        /\ \A i \in DOMAIN user_srs : user_srs[i].id # RatedSnapshot.id
        /\ IF last_rate.index + 1 < Len(last_rate.queue)
           THEN srs_list = last_rate.queue /\ srs_index = last_rate.index + 1
           ELSE NoSession

----------------------------------------------------------------------------
(* Repeated ratings of one card, under SpecRating *)

\* the record given to srs_next has interval 1 and ease 1.3
AtFloor == fn_entry.srs_interval = 1 /\ fn_entry.srs_ease = Lit_1_3

\* C26: the record with interval 1 and ease 1.3 is reached from the record
\* db_create_srs makes, and Good gives it interval 1 and ease 1.3 again, so no
\* number of Good ratings makes its interval grow; Hard gives every interval
\* from 1 to 4 back unchanged.
C26_GrowthLost ==
    Called =>
        /\ (fn_rating = 2 /\ AtFloor) =>
               /\ fn_result.srs_interval = 1
               /\ fn_result.srs_ease = Lit_1_3
        /\ (fn_rating = 1 /\ fn_entry.srs_interval \in 1..4) =>
               fn_result.srs_interval = fn_entry.srs_interval

\* six Again ratings of a new card take its ease to 1.3; the record was then
\* rated Good once and is rated Good again, and its interval is still 1
C26_Witness ==
    /\ Called
    /\ fn_steps = 8
    /\ fn_rating = 2
    /\ AtFloor
    /\ fn_entry.srs_reps = 1
    /\ fn_result.srs_interval = 1
    /\ fn_result.srs_reps = 2

----------------------------------------------------------------------------
(* Rated cards and later selections, under Spec *)

\* the record with this id was rated on this date
RatedOn(srs_id, date) == << srs_id, date >> \in rated_on

\* C27: the due date a rating stores is later than the day of the rating, so
\* a selection made without review-ahead never returns a card rated on the day
\* of the selection.
C27_RatedNotDueSameDay ==
    /\ Rated =>
          \A i \in DOMAIN user_srs :
              user_srs[i].id = RatedSnapshot.id => StrLess(last_rate.today, user_srs[i].srs_due)
    /\ (Collected /\ ~last_collect.review_ahead) =>
          \A k \in DOMAIN last_collect.due_cards :
              ~RatedOn(last_collect.due_cards[k][2].id, last_collect.today)

\* the first of two due cards was rated and the session restarted the same
\* day: the selection, made without review-ahead, returns the other card only
C27_Witness ==
    /\ Restarted
    /\ Collected
    /\ ~last_collect.review_ahead
    /\ last_collect.review_source = "All English Words"
    /\ Len(last_collect.due_cards) = 1
    /\ \E i \in DOMAIN user_srs :
          /\ RatedOn(user_srs[i].id, last_collect.today)
          /\ user_srs[i].id # last_collect.due_cards[1][2].id

----------------------------------------------------------------------------
(* What a rating leaves alone, under Spec *)

\* C28: a step that submits a rating changes, of the stored data, only the
\* record of the card presented, and of that record only interval, ease,
\* repetitions and due date: every row keeps its id, user and card, every row
\* of another card stays as it is, no row is removed, and the rows of table
\* words, the cards of a queue that is kept and the study history are unchanged.
C28_RatingFrame ==
    [][last_rate' # None =>
          /\ Len(user_srs') >= Len(user_srs)
          /\ \A i \in DOMAIN user_srs :
                /\ user_srs'[i].id = user_srs[i].id
                /\ user_srs'[i].user_id = user_srs[i].user_id
                /\ user_srs'[i].word_id = user_srs[i].word_id
                /\ user_srs[i].id # srs_list[srs_index + 1][2].id => user_srs'[i] = user_srs[i]
          /\ WordRows' = WordRows
          /\ srs_index' > 0 => srs_list' = srs_list
          /\ study_history' = study_history]_vars

\* the first card of a two-card session was rated: its record took the new
\* values and the record of the second card is as it was created
C28_Witness ==
    /\ Rated
    /\ last_rate.index = 0
    /\ srs_index = 1
    /\ Len(user_srs) = 2
    /\ \E i, k \in DOMAIN user_srs :
          /\ user_srs[i].id = RatedSnapshot.id
          /\ ~Untouched(user_srs[i])
          /\ user_srs[k].id = srs_list[2][2].id
          /\ user_srs[k] = srs_list[2][2]
          /\ Untouched(user_srs[k])

----------------------------------------------------------------------------
(* The prompt of the card presented, under Spec *)

\* the card has something to show for this prompt
HasFacet(card, prompt) ==
    \/ prompt = "word"
    \/ prompt = "meaning" /\ card.meaning # ""
    \/ prompt = "comment" /\ card.comment # ""

\* C29: whenever a card is presented the stored prompt names a facet that card
\* has: the word, or the meaning of a card with a meaning, or the comment of a
\* card with a comment; no prompt of an earlier card or session is shown for
\* a card that lacks the facet.
C29_PromptHasFacet ==
    Presenting => HasFacet(srs_list[srs_index + 1][1], srs_prompt_type)

\* a reverse-mode session showed the comment of its first card; the card was
\* rated and the second card, which has neither comment nor meaning, shows its
\* word
C29_Witness ==
    /\ Rated
    /\ sess # None
    /\ sess.reverse
    /\ srs_reverse_mode
    /\ srs_index = 1
    /\ srs_list[1][1].comment # ""
    /\ srs_list[2][1].comment = ""
    /\ srs_list[2][1].meaning = ""
    /\ srs_prompt_type = "word"

----------------------------------------------------------------------------
(* Direction of the changes, under SpecRating *)

\* C30: for a record with interval >= 1 and ease >= 1.3, Hard, Good and Easy
\* return an interval that is not smaller than the record's, Again and Hard
\* return an ease that is not larger than the record's, and Easy returns an ease
\* that is larger.
C30_Directions ==
    (Called /\ ValidRecord(fn_entry)) =>
        /\ fn_rating \in {1, 2, 3} => fn_result.srs_interval >= fn_entry.srs_interval
        /\ fn_rating \in {0, 1} => ~FloatLess(fn_entry.srs_ease, fn_result.srs_ease)
        /\ fn_rating = 3 => FloatLess(fn_entry.srs_ease, fn_result.srs_ease)

\* Hard on a record that earlier ratings took to interval 7: the interval grows
\* to 8 and the ease falls
C30_Witness ==
    /\ Called
    /\ ValidRecord(fn_entry)
    /\ fn_rating = 1
    /\ fn_entry.srs_interval = 7
    /\ fn_result.srs_interval = 8
    /\ FloatLess(fn_result.srs_ease, fn_entry.srs_ease)

====
